---- MODULE Spec2Model ----
(***************************************************************************)
(* Model of src/data/parser.py: AnimeParser, a crawler that walks the      *)
(* paginated listing of a site, extracts 19 fields from every item page    *)
(* and appends one CSV row per item.                                       *)
(*                                                                         *)
(* A Python str is a sequence of one-character strings.  A Python value    *)
(* returned by a search function is a record [py, v]: py is "str", "list", *)
(* "None" or "raise" and v is its payload (the characters, the list of tag *)
(* texts, or the name of the exception).                                   *)
(*                                                                         *)
(* Three specifications share the actions:                                 *)
(*   Spec        a whole run of main() on a small file;                    *)
(*   SpecStart   a run on a file of up to MaxStartRows rows, as far as its *)
(*               first listing call;                                       *)
(*   SpecFields  one call of get_anime_info, on every detail page that     *)
(*               differs from a well-formed one in up to MaxBroken fields. *)
(***************************************************************************)
EXTENDS Integers, Sequences, FiniteSets, TLC

(***************************************************************************)
(* Bounds of the model.                                                    *)
(***************************************************************************)
\* largest number of data rows the file holds before a run of the crawl
MaxInitRows == 2
\* largest number of data rows the file holds before a run that is followed
\* up to its first listing
MaxStartRows == 120
\* largest number of item links a listing page carries
MaxLinks == 2
\* the site answers 404 to every listing offset above this one
MaxOffset == 51
\* largest number of fields of one detail page that are not well formed
MaxBroken == 1
\* largest number of sibling tags after the marker of a multi-valued field
MaxTags == 2

(***************************************************************************)
(* Program constants.                                                      *)
(***************************************************************************)
\* the literal 50 of run_parser: page_num = n // 50 and page_num += 50
PageSize == 50
\* @retry(..., tries=5, delay=5, backoff=2)
Tries == 5
Delay == 5
Backoff == 2
NotFound == 404

\* retry_exceptions
retry_exceptions == {"ConnectionError", "Timeout"}

\* the header row written by __init__, in the order of the written tuple
Fields ==
  << "title", "english_title", "type_of_anime", "episodes", "status", "aired",
     "premiered", "broadcast", "producers", "licensors", "studios", "source",
     "genres", "themes", "demographics", "duration", "adult_rating",
     "synopsis", "rating" >>

FieldSet == {Fields[i] : i \in 1..Len(Fields)}

\* fields read with _info_from_sibling
SiblingFields ==
  {"english_title", "episodes", "status", "aired", "broadcast", "source",
   "duration", "adult_rating"}
\* fields read with _info_from_next_tag
NextTagFields == {"type_of_anime", "premiered"}
\* fields read with _info_from_several_siblings
SeveralFields ==
  {"producers", "licensors", "studios", "genres", "themes", "demographics"}

(***************************************************************************)
(* Python strings.                                                         *)
(***************************************************************************)
\* the characters the model uses, in code point order
Alphabet ==
  << "\n", " ", ",", "0", "1", "2", "3", "4", "5", "6", "7", "8", "9",
     "A", "D", "N", "T", "a", "c", "d", "e", "i", "m", "n", "o", "r", "s",
     "t" >>

Ord(c) == CHOOSE i \in 1..Len(Alphabet) : Alphabet[i] = c

Whitespace == {"\n", " "}

NaN == <<"N", "a", "N">>
AddSome == <<"a", "d", "d", " ", "s", "o", "m", "e">>

RECURSIVE LStrip(_)
LStrip(s) ==
  IF s # <<>> /\ Head(s) \in Whitespace THEN LStrip(Tail(s)) ELSE s

RECURSIVE RStrip(_)
RStrip(s) ==
  IF s # <<>> /\ s[Len(s)] \in Whitespace
  THEN RStrip(SubSeq(s, 1, Len(s) - 1))
  ELSE s

\* str.strip()
Strip(s) == RStrip(LStrip(s))

\* str < str: lexicographic on code points
RECURSIVE StrLess(_, _)
StrLess(a, b) ==
  IF b = <<>> THEN FALSE
  ELSE IF a = <<>> THEN TRUE
  ELSE IF Head(a) = Head(b) THEN StrLess(Tail(a), Tail(b))
  ELSE Ord(Head(a)) < Ord(Head(b))

\* a sort from the largest down
RECURSIVE MutSortedDescending(_)
MutSortedDescending(S) ==
  IF S = {} THEN <<>>
  ELSE LET m == CHOOSE x \in S : \A y \in S \ {x} : StrLess(y, x)
       IN <<m>> \o MutSortedDescending(S \ {m})

\* sorted(set(values))
RECURSIVE SortedSet(_)
SortedSet(S) ==
  IF S = {} THEN <<>>
  ELSE LET m == CHOOSE x \in S : \A y \in S \ {x} : StrLess(x, y)
       IN <<m>> \o SortedSet(S \ {m})

\* sep.join(parts)
RECURSIVE Join(_, _)
Join(sep, parts) ==
  IF parts = <<>> THEN <<>>
  ELSE IF Len(parts) = 1 THEN parts[1]
  ELSE parts[1] \o sep \o Join(sep, Tail(parts))

\* str.split('\n'): the pieces between the newlines, empty pieces kept
RECURSIVE SplitLines(_)
SplitLines(s) ==
  IF \A i \in 1..Len(s) : s[i] # "\n" THEN <<s>>
  ELSE LET k == CHOOSE i \in 1..Len(s) :
                  s[i] = "\n" /\ \A j \in 1..(i - 1) : s[j] # "\n"
       IN <<SubSeq(s, 1, k - 1)>> \o SplitLines(SubSeq(s, k + 1, Len(s)))

\* str(n) for n >= 0
RECURSIVE Decimal(_)
Decimal(n) ==
  LET d == <<Alphabet[4 + (n % 10)]>>
  IN IF n < 10 THEN d ELSE Decimal(n \div 10) \o d

\* int(s) for a string of digits, as the site reads the offset and the rank
RECURSIVE ParseDecimal(_)
ParseDecimal(s) ==
  IF s = <<>> THEN 0
  ELSE 10 * ParseDecimal(SubSeq(s, 1, Len(s) - 1)) + (Ord(s[Len(s)]) - 4)

(***************************************************************************)
(* Python values.                                                          *)
(***************************************************************************)
PyStr(s) == [py |-> "str", v |-> s]
PyList(l) == [py |-> "list", v |-> l]
PyNone == [py |-> "None", v |-> <<>>]
PyRaise(e) == [py |-> "raise", v |-> <<e>>]

(***************************************************************************)
(* A parsed detail page (soup).  For every field it says what the search   *)
(* for the field's marker meets:                                           *)
(*   "absent": find() returns None, the marker is not in the page;         *)
(*   "lone":   the marker is there and the element the code goes to next   *)
(*             (next_sibling, find_next(), the parent's next_sibling) is   *)
(*             None;                                                       *)
(*   "text":   the element the code goes to has the text `text`;           *)
(*   "tags":   find_next_siblings() returns the tags with texts `tags`.    *)
(***************************************************************************)
Absent == [kind |-> "absent", text |-> <<>>, tags |-> <<>>]
Lone == [kind |-> "lone", text |-> <<>>, tags |-> <<>>]
Text(s) == [kind |-> "text", text |-> s, tags |-> <<>>]
Tags(l) == [kind |-> "tags", text |-> <<>>, tags |-> l]


\* the soup of a page in which no marker is found
NoSoup == [f \in FieldSet |-> Absent]

(***************************************************************************)
(* The search functions, undecorated, and the two decorators.              *)
(***************************************************************************)
\* soup.find(...).next_sibling.text.strip(): None has no next_sibling, no text
info_from_sibling_raw(soup, field) ==
  IF soup[field].kind = "text"
  THEN PyStr(Strip(soup[field].text))
  ELSE PyRaise("AttributeError")

\* soup.find(...).find_next().text.strip()
info_from_next_tag_raw(soup, field) ==
  IF soup[field].kind = "text"
  THEN PyStr(Strip(soup[field].text))
  ELSE PyRaise("AttributeError")

\* soup.find(...).find_next_siblings(): a list, empty when there is no sibling
info_from_several_siblings_raw(soup, field) ==
  IF soup[field].kind = "absent"
  THEN PyRaise("AttributeError")
  ELSE PyList(soup[field].tags)

\* soup.find('span', itemprop='ratingValue').text.strip()
search_rating_info_raw(soup) ==
  IF soup["rating"].kind = "text"
  THEN PyStr(Strip(soup["rating"].text))
  ELSE PyRaise("AttributeError")

\* the decorator that lets AttributeError through
MutNoExceptionHandling(result) == result

\* _search_exception_handling: except AttributeError: return 'NaN'
search_exception_handling(result) ==
  IF result.py = "raise" /\ result.v = <<"AttributeError">>
  THEN PyStr(NaN)
  ELSE result

\* a formatting without the test for the placeholder
MutNoPlaceholder(result) ==
  IF result.py = "raise" THEN result
  ELSE IF result.py = "None" THEN PyStr(NaN)
  ELSE IF result.py = "list"
  THEN LET feature_values == [i \in 1..Len(result.v) |-> Strip(result.v[i])]
       IN PyStr(Join(<<",", " ">>,
                     SortedSet({feature_values[i] : i \in 1..Len(feature_values)})))
  ELSE result

\* _feature_formatting, applied to what the wrapped function returned
feature_formatting(result) ==
  IF result.py = "raise" THEN result
  ELSE IF result.py = "None" THEN PyStr(NaN)
  ELSE IF result.py = "list"
  THEN LET feature_values == [i \in 1..Len(result.v) |-> Strip(result.v[i])]
           feature_value ==
             Join(<<",", " ">>,
                  SortedSet({feature_values[i] : i \in 1..Len(feature_values)}))
       IN IF feature_value = AddSome THEN PyStr(NaN) ELSE PyStr(feature_value)
  ELSE result

\* the decorated search functions
info_from_sibling(soup, field) ==
  feature_formatting(search_exception_handling(info_from_sibling_raw(soup, field)))

info_from_next_tag(soup, field) ==
  feature_formatting(search_exception_handling(info_from_next_tag_raw(soup, field)))

info_from_several_siblings(soup, field) ==
  feature_formatting(
    search_exception_handling(info_from_several_siblings_raw(soup, field)))

search_rating_info(soup) ==
  feature_formatting(search_exception_handling(search_rating_info_raw(soup)))

\* a title read like every other field, with the sentinel as its fallback
MutTitleFallback(soup) ==
  IF soup["title"].kind = "text"
  THEN PyStr(Strip(soup["title"].text))
  ELSE PyStr(NaN)

\* title = soup.find('h1', ...).text.strip(), outside every try
title_of(soup) ==
  IF soup["title"].kind = "text"
  THEN PyStr(Strip(soup["title"].text))
  ELSE PyRaise("AttributeError")

\* the try block of get_anime_info that reads the synopsis
synopsis_of(soup) ==
  IF soup["synopsis"].kind = "text"
  THEN LET synopsis == Strip(soup["synopsis"].text)
           lines == SplitLines(synopsis)
       IN PyStr(Join(<<" ">>, SubSeq(lines, 1, Len(lines) - 1)))
  ELSE PyStr(NaN)

\* the value get_anime_info computes for one field
field_value(soup, field) ==
  CASE field = "title" -> title_of(soup)
    [] field \in SiblingFields -> info_from_sibling(soup, field)
    [] field \in NextTagFields -> info_from_next_tag(soup, field)
    [] field \in SeveralFields -> info_from_several_siblings(soup, field)
    [] field = "synopsis" -> synopsis_of(soup)
    [] field = "rating" -> search_rating_info(soup)

\* a body that writes the fields it has when one of them raises
MutPartialRow(soup) ==
  LET values == [i \in 1..Len(Fields) |-> field_value(soup, Fields[i])]
  IN PyList(SelectSeq([i \in 1..Len(Fields) |-> values[i]],
                      LAMBDA x : x.py # "raise"))

\* the body of get_anime_info after the response is in: the exception that
\* leaves it, or the tuple handed to writer.writerow
extract_row(soup) ==
  LET values == [i \in 1..Len(Fields) |-> field_value(soup, Fields[i])]
  IN IF \E i \in 1..Len(Fields) : values[i].py = "raise"
     THEN values[CHOOSE j \in 1..Len(Fields) :
                   /\ values[j].py = "raise"
                   /\ \A k \in 1..(j - 1) : values[k].py # "raise"]
     ELSE PyList([i \in 1..Len(Fields) |-> values[i].v])


(***************************************************************************)
(* The site.  The href of an item is its rank in digits: the listing at    *)
(* offset K carries the links of the items K+1, K+2, ... in that order.    *)
(* The detail page of item i is well formed (FullDoc), or lacks its title  *)
(* heading.                                                                *)
(***************************************************************************)
\* the links of the n items the listing at `offset` carries
LinksAt(offset, n) == [k \in 1..n |-> Decimal(offset + k)]

TitleText(i) == <<"T">> \o Decimal(i)

\* the text the page has for a field that is there
FieldShape(i, field) ==
  CASE field = "title" -> Text(<<" ">> \o TitleText(i) \o <<"\n">>)
    [] field \in SiblingFields -> Text(<<" ", "a", " ">>)
    [] field \in NextTagFields -> Text(<<"t", "\n">>)
    [] field \in SeveralFields -> Tags(<< <<"D">>, <<" ", "A">>, <<"D">> >>)
    [] field = "synopsis" -> Text(<<"s", "\n", "e", "\n", "c", "\n">>)
    [] field = "rating" -> Text(<<" ", "9">>)

FullDoc(i) == [f \in FieldSet |-> FieldShape(i, f)]
NoTitleDoc(i) == [FullDoc(i) EXCEPT !["title"] = Absent]

\* the detail pages a run of the crawl is served for link i
CrawlBodies(i) == {FullDoc(i), NoTitleDoc(i)}

\* the ways a field of a detail page can be other than in FullDoc
BrokenShapes(field) ==
  CASE field = "title" -> {Absent}
    [] field \in SeveralFields ->
         {Absent, Lone, Tags(<<AddSome>>), Tags(<<AddSome, <<" ">> \o AddSome>>)}
    [] field = "synopsis" -> {Absent, Lone, Text(<<"c">>)}
    [] OTHER -> {Absent, Lone}

\* the detail pages that differ from FullDoc(i) in at most MaxBroken fields
AllBodies(i) ==
  UNION { { [f \in FieldSet |-> IF f \in B THEN shape[f] ELSE FieldShape(i, f)] :
              shape \in {sh \in [B -> UNION {BrokenShapes(f) : f \in B}] :
                            \A f \in B : sh[f] \in BrokenShapes(f)} }
          : B \in {X \in SUBSET FieldSet : Cardinality(X) <= MaxBroken} }

\* texts of the tags that follow the marker of a multi-valued field
Action == <<"A", "c", "t", "i", "o", "n">>
Drama == <<"D", "r", "a", "m", "a">>
TagTexts ==
  {Action, Drama, <<" ">> \o Action \o <<"\n">>, <<"a", "c", "t">>, <<"A", "c", "t">>,
   AddSome, <<"\n">> \o AddSome \o <<" ">>}

\* the lists of tags find_next_siblings() can return
TagLists ==
  {<<Action, Drama, Action>>} \cup UNION {[1..n -> TagTexts] : n \in 1..MaxTags}

\* the well-formed detail pages of item i with any list of tags after the
\* marker of one multi-valued field
TaggedBodies(i) ==
  {[FullDoc(i) EXCEPT ![f] = Tags(l)] : f \in SeveralFields, l \in TagLists}

\* the status codes the site answers with
Statuses == {200, NotFound, 500}

\* what requests.get(url) ends with, for a listing (op = "listing") or a
\* detail page (op = "item"): an exception, or a response
Raised(op, url, e) ==
  [op |-> op, url |-> url, exc |-> e, status |-> 0, links |-> <<>>, soup |-> NoSoup]
ListingResponse(url, st, l) ==
  [op |-> "listing", url |-> url, exc |-> "", status |-> st, links |-> l,
   soup |-> NoSoup]
ItemResponse(url, st, doc) ==
  [op |-> "item", url |-> url, exc |-> "", status |-> st, links |-> <<>>,
   soup |-> doc]
NoResponse == Raised("", <<>>, "")

\* the row a well-formed page of item i leaves in the file
RowOf(i) == extract_row(FullDoc(i)).v

(***************************************************************************)
(* State.                                                                  *)
(***************************************************************************)
VARIABLES
  data_file,          \* the CSV file: [exists, header, rows]
  redo,               \* self.redo
  pc,                 \* where the program is
  num_anime_records,  \* run_parser's local
  page_num,           \* run_parser's local
  page_url,           \* run_parser's local, without start_url
  anime_links,        \* the links of the page being processed
  link_num,           \* how many of them get_anime_info has returned for
  in_call,            \* a retry-decorated call is between two attempts
  tries,              \* _tries of the retry loop
  delay,              \* _delay of the retry loop
  sleeps,             \* the time.sleep calls of the latest decorated call
  attempts,           \* the requests.get calls of the latest decorated call
  response,           \* what the latest requests.get ended with
  error,              \* the exception that ended the run, "" if none
  processed           \* how many get_anime_info calls of this run returned

vars ==
  << data_file, redo, pc, num_anime_records, page_num, page_url, anime_links,
     link_num,
     in_call, tries, delay, sleeps, attempts, response, error, processed >>

NoFile == [exists |-> FALSE, header |-> <<>>, rows |-> <<>>]
FileWith(rows) == [exists |-> TRUE, header |-> Fields, rows |-> rows]

\* no file yet, or the file earlier runs wrote: the header and the rows of
\* the items 1..n, n <= most
InitWith(most) ==
  /\ data_file \in {NoFile} \cup {FileWith([i \in 1..n |-> RowOf(i)]) : n \in 0..most}
  /\ redo = FALSE
  /\ pc = "Idle"
  /\ num_anime_records = 0
  /\ page_num = 0
  /\ page_url = <<>>
  /\ anime_links = <<>>
  /\ link_num = 0
  /\ in_call = FALSE
  /\ tries = Tries
  /\ delay = Delay
  /\ sleeps = <<>>
  /\ attempts = 0
  /\ response = NoResponse
  /\ error = ""
  /\ processed = 0

Init == InitWith(MaxInitRows)

\* the same, with files of up to MaxStartRows rows
InitStart == InitWith(MaxStartRows)


(***************************************************************************)
(* __init__ and the start of run_parser.                                   *)
(***************************************************************************)
\* a test that forgets redo
MutInitFile(file, r) == IF ~file.exists THEN FileWith(<<>>) ELSE file

\* if not os.path.isfile(self.data_file) or self.redo: open(..., 'w') and
\* write the header
init_file(file, r) == IF ~file.exists \/ r THEN FileWith(<<>>) ELSE file

\* __init__: the file is (re)written with the header alone when it is not
\* there or redo is set
Construct(r) ==
  /\ pc = "Idle"
  /\ redo' = r
  /\ data_file' = init_file(data_file, r)
  /\ pc' = "Ready"
  /\ UNCHANGED << num_anime_records, page_num, page_url, anime_links, link_num,
                  in_call, tries, delay, sleeps, attempts, response, error,
                  processed >>

\* sum(1 for _ in reader) - 1
count_records(file) == (Len(file.header) \div Len(Fields)) + Len(file.rows) - 1

\* page_num = num_anime_records // 50
start_offset(n) == n \div PageSize

\* the offset that moves on by one
MutNextOffset(p) == p + 1

\* a loop that asks for the same page again
MutSameOffset(p) == p

\* page_num += 50
next_offset(p) == p + PageSize

\* page_url = self.start_url + str(page_num)
url_of(p) == Decimal(p)

\* run_parser up to its first call of collect_anime_links
RunParser ==
  /\ pc = "Ready"
  /\ num_anime_records' = count_records(data_file)
  /\ page_num' = start_offset(count_records(data_file))
  /\ page_url' = url_of(start_offset(count_records(data_file)))
  /\ pc' = "Paging"
  /\ UNCHANGED << data_file, redo, anime_links, link_num, in_call, tries, delay,
                  sleeps, attempts, response, error, processed >>

(***************************************************************************)
(* The retry decorator: one step is one attempt, with what the loop does   *)
(* after it.  The loop's locals start at the decorator's arguments when a  *)
(* call starts.                                                            *)
(***************************************************************************)
cur_tries == IF in_call THEN tries ELSE Tries
cur_delay == IF in_call THEN delay ELSE Delay
cur_sleeps == IF in_call THEN sleeps ELSE <<>>
cur_attempts == IF in_call THEN attempts ELSE 0

\* a loop that gives up one attempt later
MutTriesLeft(t) == t

\* _tries -= 1
tries_left(t) == t - 1

\* a loop that sleeps without backing off
MutBackoff(d) == d

\* _delay *= backoff
backoff(d) == d * Backoff

\* the attempt at requests.get(url) raised e, one of retry_exceptions
Retried(op, url, e) ==
  /\ e \in retry_exceptions
  /\ attempts' = cur_attempts + 1
  /\ tries' = tries_left(cur_tries)
  /\ response' = Raised(op, url, e)
  /\ IF tries_left(cur_tries) = 0
     THEN \* raise
          /\ pc' = "Crashed"
          /\ error' = e
          /\ in_call' = FALSE
          /\ delay' = cur_delay
          /\ sleeps' = cur_sleeps
     ELSE \* time.sleep(_delay); _delay *= backoff
          /\ pc' = pc
          /\ error' = error
          /\ in_call' = TRUE
          /\ sleeps' = Append(cur_sleeps, cur_delay)
          /\ delay' = backoff(cur_delay)

\* the attempt returned, or raised what the loop does not catch
Left ==
  /\ attempts' = cur_attempts + 1
  /\ tries' = cur_tries
  /\ delay' = cur_delay
  /\ sleeps' = cur_sleeps
  /\ in_call' = FALSE

(***************************************************************************)
(* collect_anime_links and the loop of run_parser.                         *)
(***************************************************************************)
\* a body without the test
MutNoEndOfListing(status) == FALSE

\* a test that takes every error status for the end of the listing
MutEndOnAnyError(status) == status >= 400

\* if response.status_code == 404: raise requests.HTTPError
end_of_listing(status) == status = NotFound

\* one attempt of collect_anime_links(page_url), and what run_parser does
\* with what comes out of the decorated call
CollectLinks ==
  /\ pc = "Paging"
  /\ \/ /\ \E e \in retry_exceptions : Retried("listing", page_url, e)
        /\ UNCHANGED << data_file, redo, num_anime_records, page_num, page_url,
                        anime_links, link_num, processed >>
     \/ \E st \in Statuses, n \in 0..MaxLinks :
          /\ ParseDecimal(page_url) > MaxOffset => st = NotFound
          /\ st = NotFound => n = 0
          /\ Left
          /\ response' =
               ListingResponse(page_url, st, LinksAt(ParseDecimal(page_url), n))
          /\ IF end_of_listing(st)
             THEN \* except requests.HTTPError: break
                  /\ pc' = "Finished"
                  /\ UNCHANGED << anime_links, link_num >>
             ELSE /\ pc' = "Extracting"
                  /\ anime_links' = LinksAt(ParseDecimal(page_url), n)
                  /\ link_num' = 0
          /\ UNCHANGED << data_file, redo, num_anime_records, page_num, page_url,
                          error, processed >>

\* the for loop is through: page_num += 50, and the next page_url
NextPage ==
  /\ pc = "Extracting"
  /\ link_num = Len(anime_links)
  /\ page_num' = next_offset(page_num)
  /\ page_url' = url_of(next_offset(page_num))
  /\ pc' = "Paging"
  /\ UNCHANGED << data_file, redo, num_anime_records, anime_links, link_num,
                  in_call, tries, delay, sleeps, attempts, response, error,
                  processed >>

(***************************************************************************)
(* get_anime_info.                                                         *)
(***************************************************************************)
\* the body of get_anime_info: the status of the response is not looked at
get_anime_info(resp) == extract_row(resp.soup)

\* an attempt that has written a row when requests.get raises
MutWriteThenRaise(file) == [file EXCEPT !.rows = Append(@, RowOf(1))]

\* the file after an attempt in which requests.get raised: the exceptions the
\* decorator catches come from the first statement of the body, and the row
\* is written by the last
file_when_get_raises(file) == file

\* one attempt of get_anime_info(link) on the next link of the page, the
\* detail page drawn from bodies
ItemAttempt(link, bodies) ==
  /\ pc = "Extracting"
  /\ link_num < Len(anime_links)
  /\ \/ /\ \E e \in retry_exceptions : Retried("item", link, e)
        /\ data_file' = file_when_get_raises(data_file)
        /\ UNCHANGED << redo, num_anime_records, page_num, page_url,
                        anime_links, link_num, processed >>
     \/ \E st \in Statuses, doc \in bodies :
          LET resp == ItemResponse(link, st, doc)
              result == get_anime_info(resp)
          IN /\ Left
             /\ response' = resp
             /\ IF result.py = "raise"
                THEN \* nothing in run_parser catches it
                     /\ pc' = "Crashed"
                     /\ error' = result.v[1]
                     /\ UNCHANGED << data_file, link_num, processed >>
                ELSE \* writer.writerow(...), and the loop goes on
                     /\ data_file' =
                          [data_file EXCEPT !.rows = Append(@, result.v)]
                     /\ link_num' = link_num + 1
                     /\ processed' = processed + 1
                     /\ UNCHANGED << pc, error >>
             /\ UNCHANGED << redo, num_anime_records, page_num, page_url,
                             anime_links >>

\* a loop through the links from the last one
MutCurLink == anime_links[Len(anime_links) - link_num]

\* the link the for loop is at
cur_link == anime_links[link_num + 1]

GetAnimeInfo == ItemAttempt(cur_link, CrawlBodies(ParseDecimal(cur_link)))

Next ==
  \/ \E r \in BOOLEAN : Construct(r)
  \/ RunParser
  \/ CollectLinks
  \/ GetAnimeInfo
  \/ NextPage

Spec == Init /\ [][Next]_vars

\* a run from a file of any size, up to the end of its first listing call
NextStart ==
  \/ \E r \in BOOLEAN : Construct(r)
  \/ RunParser
  \/ CollectLinks

SpecStart == InitStart /\ [][NextStart]_vars

\* the whole run, which goes on while it has a statement to execute
SpecLive == Spec /\ WF_vars(Next)

\* one call of get_anime_info, on any detail page: the run has an empty file
\* and the listing at offset 0 has just returned one link
InitFields ==
  /\ data_file = FileWith(<<>>)
  /\ redo = FALSE
  /\ pc = "Extracting"
  /\ num_anime_records = 0
  /\ page_num = 0
  /\ page_url = url_of(0)
  /\ anime_links = LinksAt(0, 1)
  /\ link_num = 0
  /\ in_call = FALSE
  /\ tries = Tries
  /\ delay = Delay
  /\ sleeps = <<>>
  /\ attempts = 1
  /\ response = ListingResponse(url_of(0), 200, LinksAt(0, 1))
  /\ error = ""
  /\ processed = 0

GetAnimeInfoAnyPage == ItemAttempt(cur_link, AllBodies(ParseDecimal(cur_link)))

NextFields == GetAnimeInfoAnyPage

SpecFields == InitFields /\ [][NextFields]_vars

\* the state SpecFields starts in is a state of the crawl
NotInitFields == ~InitFields

\* one call of get_anime_info, on the pages of TaggedBodies
GetAnimeInfoTagged == ItemAttempt(cur_link, TaggedBodies(ParseDecimal(cur_link)))

NextFormat == GetAnimeInfoTagged

SpecFormat == InitFields /\ [][NextFormat]_vars


(***************************************************************************)
(* The claims.                                                             *)
(***************************************************************************)
rows == data_file.rows
Running == pc \notin {"Idle", "Ready"}
\* the latest requests.get returned a response, of a listing or of an item
GotListing == response.op = "listing" /\ response.exc = ""
GotItem == response.op = "item" /\ response.exc = ""
HasTitle(doc) == doc["title"].kind = "text"

\* C1: for every file of N data rows, the first listing offset a run requests
\* is 50 * (N // 50).  (Under SpecStart the rows are those the run started
\* with and every listing request is the run's first.)
C1_FirstOffsetIsPageStart ==
  response.op = "listing" =>
    ParseDecimal(response.url) = PageSize * (Len(rows) \div PageSize)

\* C2: a run on a file that holds the rows of an earlier run appends no
\* second row for an item whose row is in the file.
C2_NoSecondRow ==
  \A i, j \in 1..Len(rows) : i # j => rows[i][1] # rows[j][1]

\* C3: a listing fetch that returns 404 takes the controller to Finished in
\* that very step with the file as it was, and nothing happens after Finished.
C3_NotFoundFinishes ==
  [][ /\ pc # "Finished"
      /\ (pc = "Paging" /\ response'.exc = "" /\ response'.status = NotFound)
           => (pc' = "Finished" /\ data_file' = data_file) ]_vars

\* a run that fetched items has ended on a 404 listing
C3_Witness ==
  pc = "Finished" /\ GotListing /\ response.status = NotFound /\ processed = MaxLinks

\* C4: in every state of a run the file holds the header, the rows the run
\* started with and one row of 19 fields per get_anime_info call that
\* returned; a call that raised left nothing.
C4_RowsAreStartPlusProcessed ==
  Running =>
    /\ Len(rows) = num_anime_records + processed
    /\ \A i \in 1..Len(rows) : Len(rows[i]) = Len(Fields)
    /\ data_file.header = Fields

\* a run that appended a row and then crashed on an item
C4_Witness ==
  pc = "Crashed" /\ error = "AttributeError" /\ processed = 1 /\ Len(rows) > 1

\* C5: while a page is processed every step adds as many rows as links it
\* completes, starting from none, so a page of L links that all succeed adds
\* L rows; page_num changes only when the page is through, by 50, and the
\* next listing is requested there.
C5_PageAddsItsLinksThenAdvances ==
  [][ /\ (pc = "Paging" /\ pc' = "Extracting")
           => (link_num' = 0 /\ rows' = rows /\ anime_links' = response'.links)
      /\ (pc = "Extracting" /\ pc' # "Crashed")
           => Len(rows') - link_num' = Len(rows) - link_num
      /\ (pc = "Extracting" /\ pc' = "Paging")
           => /\ link_num = Len(anime_links)
              /\ ParseDecimal(page_url') = ParseDecimal(page_url) + PageSize
      /\ (Running /\ page_url' # page_url)
           => (pc = "Extracting" /\ pc' = "Paging")
      /\ (pc = "Paging" /\ response' # response)
           => (response'.op = "listing" /\ response'.url = page_url) ]_vars

\* the listing at offset 50 is requested after a page of MaxLinks links
C5_Witness ==
  /\ response.op = "listing" /\ ParseDecimal(response.url) = PageSize
  /\ Len(anime_links) = MaxLinks /\ link_num = MaxLinks
  /\ Len(rows) = num_anime_records + MaxLinks

\* C6: a decorated call makes at most 5 attempts; the 5th transient failure
\* is the exception that ends the run, which then does nothing more, and the
\* file has no row for the call.
C6_RetryExhaustionIsFatal ==
  /\ [](attempts <= Tries)
  /\ []((response.exc \in retry_exceptions /\ attempts = Tries)
          => (pc = "Crashed" /\ error = response.exc))
  /\ []((pc = "Crashed" /\ error \in retry_exceptions)
          => /\ attempts = Tries /\ response.exc = error
             /\ Len(rows) = num_anime_records + processed)
  /\ [][ /\ pc # "Crashed"
         /\ pc' = "Crashed" => data_file' = data_file ]_vars

\* an item fetch ran out of attempts after a row was appended
C6_Witness ==
  /\ pc = "Crashed" /\ error = "Timeout" /\ response.op = "item"
  /\ attempts = Tries /\ processed = 1

\* C7 as stated: the fetch that succeeds on its 5th attempt has slept 5, 10,
\* 20, 40, and the transient failure reported fatal is the 6th in a row.
C7_SixthFailureIsFatal ==
  /\ (response.exc = "" /\ attempts = Tries) => sleeps = <<5, 10, 20, 40>>
  /\ (pc = "Crashed" /\ error \in retry_exceptions) => attempts = Tries + 1

\* C7 amended: the fetch that succeeds on its 5th attempt has slept 5, 10,
\* 20, 40 and its call goes on as after a first-attempt success; the
\* transient failure reported fatal is the 5th in a row, after the same four
\* sleeps, and there is no 6th attempt.
C7_FifthFailureIsFatal ==
  /\ (response.exc = "" /\ attempts = Tries)
       => (sleeps = <<5, 10, 20, 40>> /\ error \notin retry_exceptions)
  /\ (pc = "Crashed" /\ error \in retry_exceptions)
       => (attempts = Tries /\ sleeps = <<5, 10, 20, 40>>)
  /\ attempts < Tries + 1
  /\ (response.exc \in retry_exceptions /\ pc # "Crashed")
       => /\ attempts < Tries
          /\ sleeps = SubSeq(<<5, 10, 20, 40>>, 1, attempts)

\* an item was appended on the 5th attempt of its fetch
C7_Witness ==
  /\ GotItem /\ attempts = Tries /\ sleeps = <<5, 10, 20, 40>>
  /\ pc = "Extracting" /\ processed = 1


\* the place of a field in a row
FieldIndex(f) == CHOOSE i \in 1..Len(Fields) : Fields[i] = f

\* the marker of a field is not in the page, or the element the code goes to
\* from it is None
Missing(doc, f) ==
  \/ doc[f].kind = "absent"
  \/ doc[f].kind = "lone" /\ f \notin SeveralFields

\* C8: a detail page with a title always gets its row; a field other than
\* the title whose marker is missing, or whose chase meets None, is "NaN" in
\* that row, and every other field is what it is in the row of the page that
\* has the field.
C8_MissingFieldIsSentinel ==
  (GotItem /\ HasTitle(response.soup)) =>
    /\ pc # "Crashed" /\ error = ""
    /\ Len(rows) = num_anime_records + processed
    /\ processed > 0
    /\ LET row == rows[Len(rows)]
           doc == response.soup
           item == ParseDecimal(response.url)
       IN \A f \in FieldSet \ {"title"} :
            Missing(doc, f) =>
              /\ row[FieldIndex(f)] = NaN
              /\ LET whole == extract_row([doc EXCEPT ![f] = FieldShape(item, f)]).v
                 IN \A g \in FieldSet \ {f} :
                      row[FieldIndex(g)] = whole[FieldIndex(g)]

\* rows were written for a page without its Genres marker and for a page
\* whose Episodes marker has no next sibling
C8_Witness ==
  /\ GotItem /\ Len(rows) = 1
  /\ \/ response.soup["genres"].kind = "absent"
     \/ response.soup["episodes"].kind = "lone"

\* C9: a detail page without its title heading ends the run in that very
\* step with AttributeError: the file and the place in the page's links stay
\* as they were and nothing happens after, so the run is never Finished.
C9_MissingTitleIsFatal ==
  [][ /\ pc # "Crashed"
      /\ (/\ pc = "Extracting" /\ link_num < Len(anime_links)
          /\ response'.exc = "" /\ ~HasTitle(response'.soup))
           => /\ pc' = "Crashed" /\ error' = "AttributeError"
              /\ data_file' = data_file
              /\ link_num' = link_num ]_vars

\* the first of the MaxLinks links of a page had no title
C9_Witness ==
  /\ pc = "Crashed" /\ error = "AttributeError" /\ GotItem
  /\ link_num = 0 /\ Len(anime_links) = MaxLinks
  /\ Len(rows) = num_anime_records

\* C10: a detail page answered with a status other than success is fatal
\* for its item, whatever its body: the run has ended.
C10_BadStatusIsFatal ==
  (GotItem /\ response.status # 200) => pc = "Crashed"


\* C11: a listing answered with an error status other than 404 is not the
\* end of the catalog and is not processed as a page: its call is being
\* retried or the run has ended with an error.
C11_ErrorListingIsNotAPage ==
  (GotListing /\ response.status \notin {200, NotFound}) =>
    \/ pc = "Crashed"
    \/ pc = "Paging" /\ in_call


\* the page gives no value for the field: its marker is missing, the element
\* the code goes to is None, the marker has no sibling, or the synopsis has
\* no line left once its last line is dropped
Valueless(doc, f) ==
  \/ doc[f].kind \in {"absent", "lone"}
  \/ f \in SeveralFields /\ doc[f].kind = "tags" /\ doc[f].tags = <<>>
  \/ f = "synopsis" /\ doc[f].kind = "text"
       /\ Len(SplitLines(Strip(doc[f].text))) = 1

\* C12: the row written for a detail page has 19 fields, none of them empty,
\* and every field the page gives no value for is "NaN".
C12_ValuelessFieldIsSentinel ==
  (GotItem /\ HasTitle(response.soup) /\ rows # <<>>) =>
    LET row == rows[Len(rows)]
    IN /\ Len(row) = Len(Fields)
       /\ \A f \in FieldSet \ {"title"} :
            /\ row[FieldIndex(f)] # <<>>
            /\ Valueless(response.soup, f) => row[FieldIndex(f)] = NaN


\* C13: constructing the parser with redo set leaves the file with the 19
\* names of the header and no data row, whatever the file was.
C13_RedoLeavesHeaderOnly ==
  [][ (pc = "Idle" /\ redo')
        => /\ pc' = "Ready"
           /\ data_file'.exists
           /\ data_file'.header = Fields /\ Len(data_file'.header) = 19
           /\ data_file'.rows = <<>> ]_vars

\* the run that follows a construction with redo counts no record
C13_Witness ==
  pc = "Paging" /\ redo /\ num_anime_records = 0 /\ rows = <<>>


\* the distinct trimmed texts of a list of tags, ascending, joined with ", "
TrimmedValues(tags) == {Strip(tags[i]) : i \in 1..Len(tags)}
JoinedAscending(tags) ==
  LET S == TrimmedValues(tags)
      q == CHOOSE p \in [1..Cardinality(S) -> S] :
             /\ {p[i] : i \in 1..Cardinality(S)} = S
             /\ \A i, j \in 1..Cardinality(S) : i < j => StrLess(p[i], p[j])
  IN Join(<<",", " ">>, q)

\* the multi-valued fields of the latest page for which tags were found
TaggedFields ==
  {f \in SeveralFields :
     response.soup[f].kind = "tags" /\ response.soup[f].tags # <<>>}

\* C14 as stated: every non-empty list of tags of a multi-valued field is
\* stored as its distinct trimmed texts, ascending, joined with ", ".
C14_ListIsJoinedAscending ==
  (GotItem /\ HasTitle(response.soup) /\ rows # <<>>) =>
    \A f \in TaggedFields :
      rows[Len(rows)][FieldIndex(f)] = JoinedAscending(response.soup[f].tags)

\* C14 amended: every non-empty list of tags of a multi-valued field is
\* stored as its distinct trimmed texts, ascending, joined with ", ", unless
\* that string is exactly "add some", which is stored as "NaN".
C14_ListIsJoinedAscendingOrPlaceholder ==
  (GotItem /\ HasTitle(response.soup) /\ rows # <<>>) =>
    \A f \in TaggedFields :
      rows[Len(rows)][FieldIndex(f)] =
        IF JoinedAscending(response.soup[f].tags) = AddSome
        THEN NaN
        ELSE JoinedAscending(response.soup[f].tags)

\* the genres Action, Drama, Action were stored as "Action, Drama"
C14_Witness ==
  /\ GotItem /\ Len(rows) = 1
  /\ response.soup["genres"] = Tags(<<Action, Drama, Action>>)
  /\ rows[1][FieldIndex("genres")] = Action \o <<",", " ">> \o Drama

\* C15: a multi-valued field whose tags all have the text "add some", once
\* or several times, is stored as "NaN".
C15_PlaceholderIsSentinel ==
  (GotItem /\ HasTitle(response.soup) /\ rows # <<>>) =>
    \A f \in TaggedFields :
      TrimmedValues(response.soup[f].tags) = {AddSome}
        => rows[Len(rows)][FieldIndex(f)] = NaN

\* the placeholder came twice for the studios
C15_Witness ==
  /\ GotItem /\ Len(rows) = 1
  /\ response.soup["studios"] = Tags(<<AddSome, AddSome>>)
  /\ rows[1][FieldIndex("studios")] = NaN


\* C16: the run becomes Finished only by a listing fetch answered not-found;
\* a listing answered without links is taken as a page, after which the
\* offset goes up by 50 and the next listing is asked for; no step taken
\* while the links of a page are processed finishes the run.
C16_OnlyNotFoundFinishes ==
  [][ /\ (pc' = "Finished")
         => /\ pc = "Paging"
            /\ response'.op = "listing" /\ response'.url = page_url
            /\ response'.exc = "" /\ response'.status = NotFound
      /\ (pc = "Paging" /\ response'.op = "listing" /\ response'.exc = ""
            /\ response'.status = 200 /\ response'.links = <<>>)
         => pc' = "Extracting" /\ anime_links' = <<>> /\ link_num' = 0
      /\ (pc = "Extracting" /\ anime_links = <<>>)
         => /\ pc' = "Paging"
            /\ page_num' = page_num + PageSize
            /\ page_url' = url_of(page_num + PageSize)
      /\ (pc = "Extracting") => pc' # "Finished" ]_vars

\* the run went past a page without links and finished on a later not-found
C16_Witness ==
  /\ pc = "Finished"
  /\ page_num >= PageSize
  /\ anime_links = <<>>
  /\ response.op = "listing" /\ response.status = NotFound


\* the item a row was extracted from
RankOf(row) == ParseDecimal(Tail(row[FieldIndex("title")]))

\* C17: the rows a run appends follow the order of the links on the listing
\* pages, pages by increasing offset: the item fetched is always the first
\* link of the page without a row, a row is appended for that link and for
\* no other, and the next listing is only asked for once every link of the
\* page has its row.
C17_RowsFollowLinkOrder ==
  /\ [](Running =>
          /\ link_num <= Len(anime_links) /\ link_num <= processed
          /\ \A k \in 1..link_num :
               RankOf(rows[Len(rows) - link_num + k]) = ParseDecimal(anime_links[k])
          /\ \A a, b \in (Len(rows) - processed + 1)..Len(rows) :
               a < b => RankOf(rows[a]) < RankOf(rows[b]))
  /\ [][ /\ (pc = "Extracting" /\ pc' # "Paging")
            => /\ link_num < Len(anime_links)
               /\ response'.op = "item"
               /\ response'.url = anime_links[link_num + 1]
         /\ (Running /\ rows' # rows)
            => /\ pc = "Extracting"
               /\ rows' = Append(rows, rows'[Len(rows')])
               /\ RankOf(rows'[Len(rows')]) = ParseDecimal(anime_links[link_num + 1])
               /\ link_num' = link_num + 1
               /\ anime_links' = anime_links
         /\ (pc = "Paging")
            => response'.op = "listing" /\ response'.url = page_url
         /\ (pc = "Extracting" /\ pc' = "Paging")
            => link_num = Len(anime_links) /\ page_num' > page_num
         /\ (Running /\ anime_links' # anime_links)
            => pc = "Paging" /\ link_num' = 0 ]_vars

\* both links of the first page and both links of the second have their rows
C17_Witness ==
  /\ pc = "Extracting"
  /\ page_num = PageSize
  /\ processed = 4 /\ link_num = 2
  /\ RankOf(rows[Len(rows) - 3]) = 1 /\ RankOf(rows[Len(rows) - 2]) = 2
  /\ RankOf(rows[Len(rows) - 1]) = PageSize + 1
  /\ RankOf(rows[Len(rows)]) = PageSize + 2


\* C18: one call of get_anime_info appends at most one row, however many of
\* its attempts fail and are retried: an attempt that ends in an exception
\* the decorator catches leaves the file as it was, the attempt that appends
\* a row appends one and is the last of its call, and while a call is being
\* retried the run has not appended a row for its link.
C18_OneRowPerCall ==
  /\ []((pc = "Extracting" /\ in_call) =>
          /\ link_num < Len(anime_links)
          /\ Len(rows) = num_anime_records + processed
          /\ \A a \in (Len(rows) - processed + 1)..Len(rows) :
               RankOf(rows[a]) # ParseDecimal(cur_link))
  /\ [][ /\ (pc = "Extracting" /\ response'.exc \in retry_exceptions)
            => /\ data_file' = data_file
               /\ link_num' = link_num /\ processed' = processed
         /\ (pc = "Extracting" /\ rows' # rows)
            => /\ Len(rows') = Len(rows) + 1
               /\ response'.op = "item" /\ response'.exc = ""
               /\ response'.url = cur_link
               /\ in_call' = FALSE
               /\ link_num' = link_num + 1 ]_vars

\* a call that failed four times appended its one row on the fifth attempt
C18_Witness ==
  /\ pc = "Extracting" /\ GotItem /\ ~in_call
  /\ attempts = Tries /\ Len(sleeps) = Tries - 1
  /\ link_num = 1 /\ processed = 1
  /\ Len(rows) = num_anime_records + 1


\* C19: with not-found above MaxOffset and at most MaxLinks links on a page,
\* every run eventually stops, in Finished or with a fatal error.
C19_RunStops == <>(pc \in {"Finished", "Crashed"})

\* a run that went through every page the site has and then finished
C19_Witness ==
  /\ pc = "Finished"
  /\ page_num > MaxOffset
  /\ processed > 0

====
